---- MODULE Spec2Model ----
(***************************************************************************)
(* A model of gotham_state's `State` (src/src/lib.rs): a container that    *)
(* keeps at most one value per static type in a                            *)
(* BTreeMap<TypeId, Box<dyn Any>>.                                         *)
(*                                                                         *)
(* A static type T is an index into TypeNames.  TypeIdOf(T) is the opaque  *)
(* runtime identifier the map is keyed by, type_name(T) the name that the  *)
(* panic message prints.  A Box<dyn Any> is a cell that remembers the      *)
(* TypeId of its concrete payload, which is what downcast compares.        *)
(*                                                                         *)
(* Every method is an operator from the container (and its arguments) to   *)
(* the container afterwards and the value returned; a panic is a return    *)
(* value of kind "panic" carrying the type name printed.  The actions      *)
(* apply the methods to the one container `data` and record the call and   *)
(* its outcome in op, ty, arg, ret, with `pre` the container before the    *)
(* call.  A caller that catches the unwind keeps using the container, so   *)
(* a panic does not end the behaviour.                                     *)
(***************************************************************************)
EXTENDS Integers, Sequences, FiniteSets

\* ------------------------------------------------------------------ bounds
NumTypes == 3
MaxVal == 3

\* ------------------------------------------------------------------ types
TypeNames == <<"IntMarker", "StrMarker", "BoolMarker", "UnitMarker", "ListMarker">>
TypeIdTable == <<17, 5, 11, 3, 23>>

Types == 1..NumTypes
Values == 1..MaxVal

\* TypeId::of::<T>(): distinct types have distinct identifiers.
TypeIdOf(T) == TypeIdTable[T]

\* std::any::type_name::<T>()
type_name(T) == TypeNames[T]

\* ------------------------------------------------------------------ values returned
None == [kind |-> "none", val |-> 0, name |-> ""]
Some(v) == [kind |-> "some", val |-> v, name |-> ""]
Bool(b) == [kind |-> IF b THEN "true" ELSE "false", val |-> 0, name |-> ""]
Unit == [kind |-> "unit", val |-> 0, name |-> ""]
Panic(n) == [kind |-> "panic", val |-> 0, name |-> n]

\* An Option whose payload set s has no or one element.
Opt(s) == IF s = {} THEN None ELSE Some(CHOOSE v \in s : TRUE)

\* ------------------------------------------------------------------ Box<dyn Any>
\* The value boxed twice, Box::new(Box::new(t)): the payload is a Box<T>, whose
\* TypeId is not T's.
BoxNew_Nested(T, t) == [tid |-> TypeIdOf(T) + 1, val |-> t]

\* Box::new(t) for t : T
BoxNew(T, t) == [tid |-> TypeIdOf(T), val |-> t]

\* <dyn Any>::downcast_ref / downcast_mut / Box::downcast(..).ok() applied
\* through Option::and_then: the cells whose payload is a T, as values.
downcast(cells, T) == {c.val : c \in {x \in cells : x.tid = TypeIdOf(T)}}

\* ------------------------------------------------------------------ BTreeMap
\* The map is the set of its entries [key, cell].
BTreeInsert(m, k, c) == {e \in m : e.key # k} \cup {[key |-> k, cell |-> c]}
BTreeGet(m, k) == {e.cell : e \in {x \in m : x.key = k}}
BTreeRemove(m, k) == [map |-> {e \in m : e.key # k}, removed |-> BTreeGet(m, k)]

Keys(m) == {e.key : e \in m}

\* ------------------------------------------------------------------ State's methods
\* unwrap_or_default() in place of unwrap_or_else(|| missing::<T>())
unwrap_or_default(r, T) == IF r.kind = "some" THEN r ELSE Some(0)

\* put keyed by the TypeId of the box, TypeId::of::<Box<T>>()
put_KeyOfBox(d, T, t) == [data |-> BTreeInsert(d, TypeIdOf(T) + 1, BoxNew(T, t)), ret |-> Unit]

\* put by entry(type_id).or_insert(..): a value already present is kept
put_OrInsert(d, T, t) == [data |-> IF BTreeGet(d, TypeIdOf(T)) # {} THEN d ELSE BTreeInsert(d, TypeIdOf(T), BoxNew(T, t)), ret |-> Unit]

\* put that rebuilds the map from the one new entry
put_Rebuild(d, T, t) == [data |-> BTreeInsert({}, TypeIdOf(T), BoxNew(T, t)), ret |-> Unit]

\* has by remove(&type_id).is_some()
has_Consuming(d, T) == [data |-> BTreeRemove(d, TypeIdOf(T)).map, ret |-> Bool(BTreeRemove(d, TypeIdOf(T)).removed # {})]

\* try_borrow_mut by entry(type_id).or_insert_with(default)
try_borrow_mut_OrInsert(d, T) == [data |-> IF BTreeGet(d, TypeIdOf(T)) # {} THEN d ELSE BTreeInsert(d, TypeIdOf(T), BoxNew(T, 1)), ret |-> Opt(downcast(BTreeGet(d, TypeIdOf(T)), T))]

\* try_take by get(&type_id): the entry stays
try_take_Get(d, T) == [data |-> d, ret |-> Opt(downcast(BTreeGet(d, TypeIdOf(T)), T))]

\* try_take that clears the map when the type is absent
try_take_ClearOnMiss(d, T) == [data |-> IF BTreeGet(d, TypeIdOf(T)) = {} THEN {} ELSE BTreeRemove(d, TypeIdOf(T)).map, ret |-> Opt(downcast(BTreeRemove(d, TypeIdOf(T)).removed, T))]

\* take that hands out the value and leaves the entry in place
take_Keep(d, T) == [data |-> d, ret |-> IF Opt(downcast(BTreeGet(d, TypeIdOf(T)), T)).kind = "some" THEN Opt(downcast(BTreeGet(d, TypeIdOf(T)), T)) ELSE Panic(type_name(T))]

missing(T) == Panic(type_name(T))

unwrap_or_missing(r, T) == IF r.kind = "some" THEN r ELSE missing(T)

put(d, T, t) == [data |-> BTreeInsert(d, TypeIdOf(T), BoxNew(T, t)), ret |-> Unit]

has(d, T) == [data |-> d, ret |-> Bool(BTreeGet(d, TypeIdOf(T)) # {})]

try_borrow(d, T) == [data |-> d, ret |-> Opt(downcast(BTreeGet(d, TypeIdOf(T)), T))]

borrow(d, T) == [data |-> try_borrow(d, T).data, ret |-> unwrap_or_missing(try_borrow(d, T).ret, T)]

try_borrow_mut(d, T) == [data |-> d, ret |-> Opt(downcast(BTreeGet(d, TypeIdOf(T)), T))]

borrow_mut(d, T) == [data |-> try_borrow_mut(d, T).data, ret |-> unwrap_or_missing(try_borrow_mut(d, T).ret, T)]

try_take(d, T) == [data |-> BTreeRemove(d, TypeIdOf(T)).map, ret |-> Opt(downcast(BTreeRemove(d, TypeIdOf(T)).removed, T))]

take(d, T) == [data |-> try_take(d, T).data, ret |-> unwrap_or_missing(try_take(d, T).ret, T)]

\* An assignment `*r = v` through the &mut T that try_borrow_mut / borrow_mut
\* returned: the reference points at the payload of T's cell.
write_mut(d, T, v) == {IF e.key = TypeIdOf(T) /\ e.cell.tid = TypeIdOf(T) THEN [e EXCEPT !.cell.val = v] ELSE e : e \in d}

\* ------------------------------------------------------------------ state
VARIABLES data, pre, op, ty, arg, ret, mutref

vars == <<data, pre, op, ty, arg, ret, mutref>>

\* data      the container's BTreeMap
\* pre       the container before the last call
\* op, ty    the last call: the method and its type parameter
\* arg       the value arguments of the last call, <<>> or <<t>>
\* ret       what the last call returned
\* mutref    the types to which a &mut T is outstanding: {} or {T}

\* State::default()
Init ==
  /\ data = {}
  /\ pre = {}
  /\ op = "new"
  /\ ty = 1
  /\ arg = <<>>
  /\ ret = Unit
  /\ mutref = {}

\* The call `name::<T>(a)` returned r.
Call(name, T, a, r) ==
  /\ data' = r.data
  /\ pre' = data
  /\ op' = name
  /\ ty' = T
  /\ arg' = a
  /\ ret' = r.ret

Put(T, t) ==
  /\ Call("put", T, <<t>>, put(data, T, t))
  /\ mutref' = {}

Has(T) ==
  /\ Call("has", T, <<>>, has(data, T))
  /\ mutref' = {}

TryBorrow(T) ==
  /\ Call("try_borrow", T, <<>>, try_borrow(data, T))
  /\ mutref' = {}

Borrow(T) ==
  /\ Call("borrow", T, <<>>, borrow(data, T))
  /\ mutref' = {}

TryBorrowMut(T) ==
  /\ Call("try_borrow_mut", T, <<>>, try_borrow_mut(data, T))
  /\ mutref' = IF try_borrow_mut(data, T).ret.kind = "some" THEN {T} ELSE {}

BorrowMut(T) ==
  /\ Call("borrow_mut", T, <<>>, borrow_mut(data, T))
  /\ mutref' = IF borrow_mut(data, T).ret.kind = "some" THEN {T} ELSE {}

\* The caller assigns through the outstanding &mut T; the borrow checker
\* admits this only while no other method has been called since the borrow.
WriteMut(v) ==
  /\ \E T \in mutref : Call("write", T, <<v>>, [data |-> write_mut(data, T, v), ret |-> Unit])
  /\ UNCHANGED mutref

TryTake(T) ==
  /\ Call("try_take", T, <<>>, try_take(data, T))
  /\ mutref' = {}

Take(T) ==
  /\ Call("take", T, <<>>, take(data, T))
  /\ mutref' = {}

Next ==
  \/ \E T \in Types, t \in Values : Put(T, t)
  \/ \E T \in Types : Has(T)
  \/ \E T \in Types : TryBorrow(T)
  \/ \E T \in Types : Borrow(T)
  \/ \E T \in Types : TryBorrowMut(T)
  \/ \E T \in Types : BorrowMut(T)
  \/ \E v \in Values : WriteMut(v)
  \/ \E T \in Types : TryTake(T)
  \/ \E T \in Types : Take(T)

Spec == Init /\ [][Next]_vars

TypeOK ==
  /\ \A e \in data : e.key \in {TypeIdOf(T) : T \in Types} /\ e.cell.val \in Values
  /\ op \in {"new", "put", "has", "try_borrow", "borrow", "try_borrow_mut", "borrow_mut", "write", "try_take", "take"}
  /\ ty \in Types
  /\ arg \in {<<>>} \cup {<<v>> : v \in Values}
  /\ ret.kind \in {"none", "some", "true", "false", "unit", "panic"}
  /\ mutref \in {{}} \cup {{T} : T \in Types}

\* ------------------------------------------------------------------ observations
\* The entries the map holds under T's identifier.
EntriesOf(d, T) == {e \in d : e.key = TypeIdOf(T)}

Present(d, T) == EntriesOf(d, T) # {}

\* Every type other than T has the same cell in d1 and d2.
OthersSame(d1, d2, T) == \A B \in Types \ {T} : EntriesOf(d1, B) = EntriesOf(d2, B)

Queries == {"has", "try_borrow", "borrow"}
Fatal == {"borrow", "borrow_mut", "take"}
NonFatal == {"put", "has", "try_borrow", "try_borrow_mut", "try_take"}

\* The non-fatal counterpart of a fatal accessor, applied to d.
TryOf(name, d, T) ==
  CASE name = "borrow" -> try_borrow(d, T)
    [] name = "borrow_mut" -> try_borrow_mut(d, T)
    [] name = "take" -> try_take(d, T)

\* ------------------------------------------------------------------ claims

\* C1: right after put::<T>(v), has::<T>() is true and try_borrow::<T>()
\* yields a present reference whose value is v.
C1_PutThenPresent ==
  op = "put" => /\ has(data, ty).ret = Bool(TRUE)
                /\ try_borrow(data, ty).ret = Some(arg[1])

C1_Witness == op = "put" /\ pre # {} /\ try_borrow(data, ty).ret = Some(arg[1])

\* The value held for T is the one of the most recent put::<T> that no
\* successful take::<T> followed exactly when, starting from the empty
\* container, T's entry changes only in a put::<T>, to the value put, and in a
\* successful take::<T> or try_take::<T>, to absent.
ByPut(T) == op = "put" /\ ty = T /\ downcast(BTreeGet(data, TypeIdOf(T)), T) = {arg[1]}
ByTake(T) == op \in {"take", "try_take"} /\ ty = T /\ ret.kind = "some" /\ ~Present(data, T)
ByWrite(T) == op = "write" /\ ty = T /\ downcast(BTreeGet(data, TypeIdOf(T)), T) = {arg[1]}

\* C2 as stated: the container holds at most one entry per type, a put leaves
\* exactly one entry for T holding the value put, and the value held for T is
\* the one of the most recent put::<T> that no successful take of T followed.
C2_Original ==
  /\ \A T \in Types : /\ Cardinality(EntriesOf(data, T)) <= 1
                      /\ EntriesOf(data, T) # EntriesOf(pre, T) => (ByPut(T) \/ ByTake(T))
  /\ op = "put" => /\ Cardinality(EntriesOf(data, ty)) = 1
                   /\ try_borrow(data, ty).ret = Some(arg[1])

\* C2 amended: the container holds at most one entry per type, a put leaves
\* exactly one entry for T holding the value put, and the value held for T is
\* the one of the most recent put::<T> or assignment through a mutable
\* reference to T that no successful take of T followed.
C2_Amended ==
  /\ \A T \in Types : /\ Cardinality(EntriesOf(data, T)) <= 1
                      /\ EntriesOf(data, T) # EntriesOf(pre, T) => (ByPut(T) \/ ByTake(T) \/ ByWrite(T))
  /\ op = "put" => /\ Cardinality(EntriesOf(data, ty)) = 1
                   /\ try_borrow(data, ty).ret = Some(arg[1])

\* A put replaced a different value of the same type.
C2_Witness ==
  /\ op = "put"
  /\ Present(pre, ty)
  /\ try_borrow(pre, ty).ret # Some(arg[1])
  /\ try_borrow(data, ty).ret = Some(arg[1])

\* C3: put::<A>(a) changes only A's entry: every other type is present or
\* absent, with the same value, as before; so after puts of A and of B in
\* either order both are present with the values put.
C3_PutIsolated ==
  op = "put" => /\ OthersSame(data, pre, ty)
                /\ \A B \in Types \ {ty} :
                     /\ has(data, B).ret = has(pre, B).ret
                     /\ try_borrow(data, B).ret = try_borrow(pre, B).ret

\* B was put, then A: both are present, B with the value it had.
C3_Witness ==
  /\ op = "put"
  /\ ~Present(pre, ty)
  /\ \E B \in Types \ {ty} : /\ has(data, B).ret = Bool(TRUE)
                             /\ try_borrow(data, B).ret = try_borrow(pre, B).ret
  /\ try_borrow(data, ty).ret = Some(arg[1])

\* C4: with T present, take::<T>() and try_take::<T>() return the value stored
\* for T; afterwards has::<T>() is false, a further try_take::<T>() is absent
\* and every other type's entry is as before.
C4_TakeRemoves ==
  (op \in {"take", "try_take"} /\ Present(pre, ty)) =>
     /\ ret = try_borrow(pre, ty).ret
     /\ ret.kind = "some"
     /\ has(data, ty).ret = Bool(FALSE)
     /\ try_take(data, ty).ret = None
     /\ OthersSame(data, pre, ty)

C4_Witness ==
  /\ op = "take"
  /\ ret.kind = "some"
  /\ \E B \in Types \ {ty} : has(data, B).ret = Bool(TRUE)

\* C5: with T absent, try_take::<T>() returns absent and leaves the container
\* as it was.
C5_TryTakeAbsent ==
  (op = "try_take" /\ ~Present(pre, ty)) => (ret = None /\ data = pre)

C5_Witness == op = "try_take" /\ ~Present(pre, ty) /\ pre # {}

\* C6: on an empty container has is false, try_borrow, try_borrow_mut and
\* try_take are absent, and borrow, borrow_mut and take panic naming T.
C6_Empty ==
  pre = {} =>
     /\ op = "has" => ret = Bool(FALSE)
     /\ op \in {"try_borrow", "try_borrow_mut", "try_take"} => ret = None
     /\ op \in Fatal => ret = Panic(TypeNames[ty])

C6_Witness == pre = {} /\ op = "borrow_mut" /\ ret.kind = "panic" /\ ret.name = "StrMarker"

\* C7: a fatal accessor panics, naming T, exactly when T has no entry; with T
\* present it returns what its non-fatal counterpart returns and has the same
\* effect on the container.  put and the non-fatal accessors never panic.
C7_FatalIffAbsent ==
  /\ op \in Fatal =>
       /\ (ret.kind = "panic") <=> ~Present(pre, ty)
       /\ ret.kind = "panic" => ret.name = TypeNames[ty]
       /\ Present(pre, ty) => (ret = TryOf(op, pre, ty).ret /\ data = TryOf(op, pre, ty).data)
  /\ op \in NonFatal => ret.kind # "panic"

C7_Witness == op = "take" /\ Present(pre, ty) /\ ret.kind = "some" /\ data # pre

\* C8: has, try_borrow and borrow leave the container as it was, so the same
\* has or try_borrow call made again returns what it just returned.
C8_PureQueries ==
  op \in Queries =>
     /\ data = pre
     /\ op = "has" => has(data, ty).ret = ret
     /\ op = "try_borrow" => try_borrow(data, ty).ret = ret

C8_Witness == op = "has" /\ ret = Bool(TRUE) /\ Cardinality(data) >= 2

\* C9: every cell's payload type is the type its key identifies, so for every
\* T has::<T>() is true exactly when try_borrow, try_borrow_mut and try_take
\* yield a present result.
C9_DowncastNeverFails ==
  /\ \A e \in data : e.cell.tid = e.key
  /\ \A T \in Types :
       /\ (has(data, T).ret = Bool(TRUE)) <=> (try_borrow(data, T).ret.kind = "some")
       /\ (has(data, T).ret = Bool(TRUE)) <=> (try_borrow_mut(data, T).ret.kind = "some")
       /\ (has(data, T).ret = Bool(TRUE)) <=> (try_take(data, T).ret.kind = "some")

C9_Witness == op = "try_borrow" /\ ret.kind = "some" /\ has(data, ty).ret = Bool(TRUE)

\* C10: try_borrow_mut and borrow_mut add and remove no entry and return a
\* reference exactly when T is present; a value assigned through the
\* reference is what try_borrow and take then observe, and the other types'
\* values are as before.
C10_BorrowMut ==
  /\ op \in {"try_borrow_mut", "borrow_mut"} =>
       /\ Keys(data) = Keys(pre)
       /\ (ret.kind = "some") <=> Present(pre, ty)
       /\ op = "try_borrow_mut" => ret.kind \in {"some", "none"}
  /\ op = "write" =>
       /\ Keys(data) = Keys(pre)
       /\ try_borrow(data, ty).ret = Some(arg[1])
       /\ take(data, ty).ret = Some(arg[1])
       /\ OthersSame(data, pre, ty)

C10_Witness ==
  /\ op = "write"
  /\ try_borrow(pre, ty).ret # Some(arg[1])
  /\ Cardinality(data) >= 2

====
